---- MODULE Spec2Model ----
(***************************************************************************)
(* Settlement of slashed operators (src/src/main.rs, src/src/types.rs).    *)
(*                                                                         *)
(* main fetches, for every slashed operator, the nominators' deposits and  *)
(* withdrawals and the operator record, runs                               *)
(* calculate_nominators_slashed_amount for every operator (join_all: the   *)
(* futures interleave at their awaits on one thread) and collects the      *)
(* per-operator mappings nominator -> settled balance.  Any panic (unwrap, *)
(* panic!, arithmetic) unwinds main and ends the process.                  *)
(*                                                                         *)
(* Balance is u128 and Perbill counts parts per 10^9; both are scaled down *)
(* here (BalanceBits, ACCURACY) so that saturation, overflow and rounding  *)
(* happen on small numbers.  Option<T> is a sequence of length <= 1.       *)
(***************************************************************************)
EXTENDS Integers, Sequences, FiniteSets, TLC

\* ------------------------------------------------------------------ bounds
BalanceBits == 3
ACCURACY == 4
MaxNominators == 2
MaxEpoch == 1
MaxAmount == 2
NonceBits == 2

\* ------------------------------------------------------------- arithmetic
BalanceMax == 2 ^ BalanceBits - 1

Balance == 0 .. BalanceMax

\* the outcome of an operation that panicked (no Balance is negative)
Panic == -1

Min(a, b) == IF a < b THEN a ELSE b

None == << >>

Some(x) == << x >>

\* a.checked_add(b).unwrap()
CheckedAdd(a, b) == IF a = Panic \/ b = Panic \/ a + b > BalanceMax THEN Panic ELSE a + b

\* a.saturating_sub(b)
SaturatingSub(a, b) == IF a > b THEN a - b ELSE 0

\* a + b on Balance: panics when the build checks overflow, wraps otherwise
UncheckedAdd(a, b, checks) ==
    IF a = Panic \/ b = Panic THEN Panic
    ELSE IF a + b > BalanceMax
         THEN IF checks THEN Panic ELSE (a + b) % (BalanceMax + 1)
         ELSE a + b

\* ----------------------------------------------------------------- Perbill
\* Perbill::from_rational(p, q): floor(p / q) in parts; from_rational_with_rounding
\* refuses q = 0 and p > q, and from_rational answers one for both
PerbillFromRational(p, q) ==
    IF q = 0 \/ p > q THEN ACCURACY ELSE (p * ACCURACY) \div q

\* Perbill::mul_floor(x)
MulFloor(parts, x) == (x * parts) \div ACCURACY

\* Perbill::saturating_reciprocal_mul_floor(x): divides by the parts
SaturatingReciprocalMulFloor(parts, x) ==
    IF parts = 0 THEN Panic ELSE Min((x * ACCURACY) \div parts, BalanceMax)

\* --------------------------------------------------------------- SharePrice
SharePriceNew(shares, stake) ==
    IF shares = 0 \/ stake = 0 THEN ACCURACY ELSE PerbillFromRational(shares, stake)

StakeToShares(price, stake) ==
    IF price = ACCURACY THEN stake ELSE MulFloor(price, stake)

SharesToStake(price, shares) ==
    IF price = ACCURACY THEN shares ELSE SaturatingReciprocalMulFloor(price, shares)

\* StorageFundRedeemPrice((total_balance, total_deposit)).redeem(deposit)
Redeem(total_balance, total_deposit, deposit) ==
    IF total_balance = total_deposit THEN deposit
    ELSE MulFloor(PerbillFromRational(deposit, total_deposit), total_balance)

\* ------------------------------------------------------------------- types
AccountIds == 1 .. MaxNominators

DomainId == 0

\* DomainEpoch(DomainId, EpochIndex)
DomainEpochs == {<<DomainId, e>> : e \in 1 .. MaxEpoch}

\* DomainEpoch::deconstruct
Deconstruct(domain_epoch) == <<domain_epoch[1], domain_epoch[2]>>

\* BTreeMap::insert
MapInsert(m, k, v) == [x \in DOMAIN m \cup {k} |-> IF x = k THEN v ELSE m[x]]

EmptyMap == [x \in {} |-> 0]

\* the first key of a BTreeMap's iteration order
FirstKey(m) == CHOOSE k \in DOMAIN m : \A j \in DOMAIN m : k <= j

MapRemove(m, k) == [x \in DOMAIN m \ {k} |-> m[x]]

\* ---------------------------------------------------------- epoch resolver
\* do_convert_previous_epoch_deposits: prices is the operator's
\* OperatorEpochSharePrice storage at the snapshot
DoConvertPreviousEpochDeposits(deposit, prices) ==
    IF deposit.pending = None THEN [panic |-> FALSE, deposit |-> deposit]
    ELSE LET pending_deposit == deposit.pending[1]
             taken == [deposit EXCEPT !.pending = None]
             epoch_share_price == prices[pending_deposit.effective_domain_epoch]
         IN IF epoch_share_price = None THEN [panic |-> FALSE, deposit |-> taken]
            ELSE LET new_shares == StakeToShares(epoch_share_price[1], pending_deposit.amount)
                     shares == CheckedAdd(deposit.known.shares, new_shares)
                     fee == CheckedAdd(deposit.known.storage_fee_deposit,
                                       pending_deposit.storage_fee_deposit)
                 IN [panic |-> shares = Panic \/ fee = Panic,
                     deposit |-> [taken EXCEPT !.known =
                                    [shares |-> shares, storage_fee_deposit |-> fee]]]

DoConvertPreviousEpochWithdrawalKeep(withdrawal, prices) ==
    IF withdrawal.withdrawal_in_shares = None
    THEN [panic |-> FALSE, withdrawal |-> withdrawal]
    ELSE LET pw == withdrawal.withdrawal_in_shares[1]
             epoch_share_price == prices[pw.domain_epoch]
         IN IF epoch_share_price = None THEN [panic |-> FALSE, withdrawal |-> withdrawal]
            ELSE LET withdrawal_amount == SharesToStake(epoch_share_price[1], pw.shares)
                     total == CheckedAdd(withdrawal.total_withdrawal_amount, withdrawal_amount)
                 IN [panic |-> withdrawal_amount = Panic \/ total = Panic,
                     withdrawal |->
                        [withdrawal EXCEPT
                           !.total_withdrawal_amount = total,
                           !.withdrawals = Append(@,
                              [domain_id |-> Deconstruct(pw.domain_epoch)[1],
                               unlock_at_confirmed_domain_block_number |->
                                  pw.unlock_at_confirmed_domain_block_number,
                               amount_to_unlock |-> withdrawal_amount,
                               storage_fee_refund |-> pw.storage_fee_refund])]]

\* do_convert_previous_epoch_withdrawal
DoConvertPreviousEpochWithdrawal(withdrawal, prices) ==
    IF withdrawal.withdrawal_in_shares = None
    THEN [panic |-> FALSE, withdrawal |-> withdrawal]
    ELSE LET pending_withdrawal == withdrawal.withdrawal_in_shares[1]
             taken == [withdrawal EXCEPT !.withdrawal_in_shares = None]
             epoch_share_price == prices[pending_withdrawal.domain_epoch]
         IN IF epoch_share_price = None THEN [panic |-> FALSE, withdrawal |-> taken]
            ELSE LET withdrawal_amount ==
                         SharesToStake(epoch_share_price[1], pending_withdrawal.shares)
                     total == CheckedAdd(withdrawal.total_withdrawal_amount, withdrawal_amount)
                 IN [panic |-> withdrawal_amount = Panic \/ total = Panic,
                     withdrawal |->
                        [taken EXCEPT
                           !.total_withdrawal_amount = total,
                           !.withdrawals = Append(@,
                              [domain_id |-> Deconstruct(pending_withdrawal.domain_epoch)[1],
                               unlock_at_confirmed_domain_block_number |->
                                  pending_withdrawal.unlock_at_confirmed_domain_block_number,
                               amount_to_unlock |-> withdrawal_amount,
                               storage_fee_refund |-> pending_withdrawal.storage_fee_refund])]]

\* withdrawals.into_iter().fold(0, |acc, w| acc.checked_add(w.storage_fee_refund).unwrap())
RECURSIVE StorageFeeRefunds(_)
StorageFeeRefunds(withdrawals) ==
    IF withdrawals = << >> THEN 0
    ELSE CheckedAdd(StorageFeeRefunds(SubSeq(withdrawals, 1, Len(withdrawals) - 1)),
                    withdrawals[Len(withdrawals)].storage_fee_refund)

\* -------------------------------------------------------- settlement engine
\* the frame of calculate_nominators_slashed_amount before its first poll
IdleFrame ==
    [pc |-> "idle", total_stake |-> 0, total_shares |-> 0, share_price |-> ACCURACY,
     operator_storage_fund_balance |-> 0, total_storage_fee_deposit |-> 0,
     operator_nominators |-> EmptyMap, nominators_slashed_balances |-> EmptyMap,
     nominator_storage_fund_deposited_balances |-> << >>, settled |-> EmptyMap]

\* lines 285-299: the frame at the head of the loop
StartFrame(operator, nominators, fund_balance) ==
    LET total_stake == CheckedAdd(operator.current_total_stake, operator.current_epoch_rewards)
    IN [IdleFrame EXCEPT
          !.pc = IF DOMAIN nominators = {} THEN "redeem" ELSE "loop",
          !.total_stake = total_stake,
          !.total_shares = operator.current_total_shares,
          !.share_price = SharePriceNew(operator.current_total_shares, total_stake),
          !.operator_storage_fund_balance = fund_balance,
          !.total_storage_fee_deposit = operator.total_storage_fee_deposit,
          !.operator_nominators = nominators]

LoopPriceRecomputed(f) == SharePriceNew(f.total_shares, f.total_stake)

\* the share price the loop body converts with (share_price, line 292)
LoopPrice(f) == f.share_price

\* lines 322-325: shares_withdrew_in_current_epoch, read after the resolution
PendingShares(after) ==
    IF after = None \/ after[1].withdrawal_in_shares = None THEN 0
    ELSE after[1].withdrawal_in_shares[1].shares

\* lines 300-364: one iteration of the loop, for the first remaining nominator.
\* settled[nominator_id] keeps the iteration's locals.
LoopBody(f, prices, checks) ==
    LET nominator_id == FirstKey(f.operator_nominators)
        nominator_storage == f.operator_nominators[nominator_id]
        dc == DoConvertPreviousEpochDeposits(nominator_storage.deposit, prices)
        deposit == dc.deposit
        wc == IF nominator_storage.withdrawal = None
              THEN [panic |-> FALSE, withdrawal |-> None]
              ELSE LET r == DoConvertPreviousEpochWithdrawal(
                                nominator_storage.withdrawal[1], prices)
                   IN [panic |-> r.panic, withdrawal |-> Some(r.withdrawal)]
        amount_ready_to_withdraw ==
            IF wc.withdrawal = None THEN 0 ELSE wc.withdrawal[1].total_withdrawal_amount
        shares_withdrew_in_current_epoch ==
            PendingShares(wc.withdrawal)
        storage_fund_withdrew ==
            IF wc.withdrawal = None THEN 0 ELSE StorageFeeRefunds(wc.withdrawal[1].withdrawals)
        total_storage_fee_deposit ==
            IF deposit.pending # None
            THEN SaturatingSub(f.total_storage_fee_deposit, deposit.pending[1].storage_fee_deposit)
            ELSE f.total_storage_fee_deposit
        nominator_shares == CheckedAdd(deposit.known.shares, shares_withdrew_in_current_epoch)
        nominator_staked_amount ==
            IF nominator_shares = Panic THEN Panic
            ELSE SharesToStake(LoopPrice(f), nominator_shares)
        total_stake == SaturatingSub(f.total_stake, nominator_staked_amount)
        total_shares == SaturatingSub(f.total_shares, nominator_shares)
        total_slashed ==
            UncheckedAdd(UncheckedAdd(nominator_staked_amount, amount_ready_to_withdraw, checks),
                         storage_fund_withdrew, checks)
        panic == dc.panic \/ wc.panic \/ storage_fund_withdrew = Panic
                 \/ nominator_staked_amount = Panic \/ total_slashed = Panic
        rest == MapRemove(f.operator_nominators, nominator_id)
        \* what get_operator_epoch_share_price answered, when it was asked
        deposit_lookup ==
            IF nominator_storage.deposit.pending = None THEN None
            ELSE Some(prices[nominator_storage.deposit.pending[1].effective_domain_epoch])
        withdrawal_lookup ==
            IF nominator_storage.withdrawal = None
               \/ nominator_storage.withdrawal[1].withdrawal_in_shares = None
            THEN None
            ELSE Some(prices[nominator_storage.withdrawal[1].withdrawal_in_shares[1].domain_epoch])
    IN [panic |-> panic,
        frame |->
          [f EXCEPT
             !.pc = IF DOMAIN rest = {} THEN "redeem" ELSE "loop",
             !.total_stake = total_stake,
             !.total_shares = total_shares,
             !.total_storage_fee_deposit = total_storage_fee_deposit,
             !.operator_nominators = rest,
             !.nominators_slashed_balances = MapInsert(@, nominator_id, total_slashed),
             !.nominator_storage_fund_deposited_balances =
                 Append(@, <<nominator_id, deposit.known.storage_fee_deposit>>),
             !.settled = MapInsert(@, nominator_id,
                 [deposit |-> deposit,
                  withdrawal |-> wc.withdrawal,
                  deposit_lookup |-> deposit_lookup,
                  withdrawal_lookup |-> withdrawal_lookup,
                  amount_ready_to_withdraw |-> amount_ready_to_withdraw,
                  shares_withdrew_in_current_epoch |-> shares_withdrew_in_current_epoch,
                  storage_fund_withdrew |-> storage_fund_withdrew,
                  nominator_shares |-> nominator_shares,
                  nominator_staked_amount |-> nominator_staked_amount,
                  total_slashed |-> total_slashed])]]

\* lines 368-382: the redemption pass over nominator_storage_fund_deposited_balances
RECURSIVE RedeemPass(_, _, _, _, _)
RedeemPass(balances, deposited, fund_balance, total_deposit, checks) ==
    IF deposited = << >> THEN [panic |-> FALSE, balances |-> balances]
    ELSE LET nominator_id == Head(deposited)[1]
             storage_fund_slashed == Redeem(fund_balance, total_deposit, Head(deposited)[2])
             sum == UncheckedAdd(balances[nominator_id], storage_fund_slashed, checks)
             rest == RedeemPass(MapInsert(balances, nominator_id, sum), Tail(deposited),
                                fund_balance, total_deposit, checks)
         IN [panic |-> sum = Panic \/ rest.panic, balances |-> rest.balances]

\* ---------------------------------------------------------- record assembly
\* lines 180-188: deposits.into_iter().for_each(insert)
RECURSIVE InsertDeposits(_, _)
InsertDeposits(storage, deposits) ==
    IF deposits = << >> THEN storage
    ELSE InsertDeposits(MapInsert(storage, Head(deposits)[1],
                                  [deposit |-> Head(deposits)[2], withdrawal |-> None]),
                        Tail(deposits))

InsertWithdrawalsLenient(storage, withdrawals) ==
    [panic |-> FALSE,
     storage |-> [n \in DOMAIN storage |->
        IF \E i \in 1 .. Len(withdrawals) : withdrawals[i][1] = n
        THEN [storage[n] EXCEPT !.withdrawal =
                Some(withdrawals[CHOOSE i \in 1 .. Len(withdrawals) : withdrawals[i][1] = n][2])]
        ELSE storage[n]]]

\* lines 189-204: withdrawals.into_iter().for_each(match storage.get ...)
RECURSIVE InsertWithdrawals(_, _)
InsertWithdrawals(storage, withdrawals) ==
    IF withdrawals = << >> THEN [panic |-> FALSE, storage |-> storage]
    ELSE LET nominator_id == Head(withdrawals)[1]
         IN IF nominator_id \notin DOMAIN storage
            THEN [panic |-> TRUE, storage |-> storage]
            ELSE InsertWithdrawals(
                    MapInsert(storage, nominator_id,
                              [deposit |-> storage[nominator_id].deposit,
                               withdrawal |-> Some(Head(withdrawals)[2])]),
                    Tail(withdrawals))

\* ----------------------------------------------------------------- treasury
\* the nonce is a u32
NonceMax == 2 ^ NonceBits - 1

\* the task of main, as the one that panicked (no operator id is 0 here)
Main == 0

\* lines 94-98: the fold over one operator's balances, in key order
RECURSIVE FoldBalances(_, _)
FoldBalances(acc, nominator_balances) ==
    IF DOMAIN nominator_balances = {} THEN acc
    ELSE LET k == FirstKey(nominator_balances)
         IN FoldBalances(CheckedAdd(acc, nominator_balances[k]),
                         MapRemove(nominator_balances, k))

\* lines 89-101: total_balance_slashed, the fold over the joined result
RECURSIVE FoldOperators(_, _)
FoldOperators(acc, joined) ==
    IF joined = << >> THEN acc
    ELSE FoldOperators(CheckedAdd(acc, FoldBalances(0, Head(joined)[2])), Tail(joined))

TreasuryUnchecked(treasury, total) == TRUE

\* the condition of the assert! of lines 105-108
TreasurySufficient(treasury, total) == treasury >= total

\* nonce += 1 (line 116): panics when the build checks overflow, wraps otherwise
NonceIncrement(n, checks) ==
    IF n = NonceMax THEN IF checks THEN Panic ELSE 0
    ELSE n + 1

\* lines 112-119: one future per operator of the joined result, each built with
\* the nonce of its turn; a future does nothing before it is polled
RECURSIVE BuildTransfers(_, _, _)
BuildTransfers(n, joined, checks) ==
    IF joined = << >> THEN [panic |-> FALSE, futs |-> << >>]
    ELSE LET fut == [nonce |-> n, operator_id |-> Head(joined)[1],
                     nominator_balances |-> Head(joined)[2], pc |-> "created"]
             next == NonceIncrement(n, checks)
         IN IF next = Panic THEN [panic |-> TRUE, futs |-> << >>]
            ELSE LET rest == BuildTransfers(next, Tail(joined), checks)
                 IN [panic |-> rest.panic, futs |-> <<fut>> \o rest.futs]

\* ------------------------------------------------------------------- state
VARIABLES
    slashed_operators,          \* get_slashed_operators: the operator ids, in order
    overflow_checks,            \* whether the build panics on an overflowing +
    fetched,                    \* per operator, the streams get_nominator_storage returned
    operator_nominators,        \* per operator, Option of the assembled BTreeMap
    operators_info,             \* per operator, Option of the fetched Operator
    frames,                     \* per operator, calculate_nominators_slashed_amount's frame
    nominator_slashed_balances, \* Option of join_all(futs)'s result (line 88)
    panicked,                   \* Option of the operator whose future panicked
    round_trip,                 \* Option of a stake converted to shares and back
    total_balance_slashed,      \* Option of main's fold over the joined result (line 89)
    treasury_balance,           \* Option of what get_treasury_balance returned (line 102)
    nonce,                      \* Option of what api.get_nonce() returned (line 111)
    futs                        \* the transfer futures of line 112, one per operator

\* the locals of main after the settlements are joined
payout == <<total_balance_slashed, treasury_balance, nonce, futs>>

vars == <<slashed_operators, overflow_checks, fetched, operator_nominators, operators_info,
          frames, nominator_slashed_balances, panicked, round_trip, payout>>

Ops == {slashed_operators[i] : i \in 1 .. Len(slashed_operators)}

\* ------------------------------------------------------------------ actions
RunningDetached == TRUE

\* main runs every future on its own task: a panic in one unwinds main and ends
\* the process, after which no future is polled again
Running == panicked = None

\* get_nominator_deposits_and_withdrawal(operator_id): the two streams are what
\* the chain holds at the snapshot, keyed by distinct nominators
GetNominatorDepositsAndWithdrawal(o, storage_snapshots) ==
    /\ Running
    /\ operator_nominators[o] = None
    /\ \E snapshot \in storage_snapshots :
         LET deposits == snapshot[1]
             withdrawals == snapshot[2]
             r == InsertWithdrawals(InsertDeposits(EmptyMap, deposits), withdrawals)
         IN /\ fetched' = [fetched EXCEPT ![o] =
                             Some([deposits |-> deposits, withdrawals |-> withdrawals])]
            /\ IF r.panic
               THEN /\ panicked' = Some(o)
                    /\ UNCHANGED operator_nominators
               ELSE /\ operator_nominators' = [operator_nominators EXCEPT ![o] = Some(r.storage)]
                    /\ UNCHANGED panicked
    /\ UNCHANGED <<round_trip, payout>>
    /\ UNCHANGED <<slashed_operators, overflow_checks, operators_info, frames,
                   nominator_slashed_balances>>

\* get_operator_info(operator_id), once every record assembly has been joined
GetOperatorInfo(o, operator_set) ==
    /\ Running
    /\ \A p \in Ops : operator_nominators[p] # None
    /\ operators_info[o] = None
    /\ \E operator \in operator_set :
         operators_info' = [operators_info EXCEPT ![o] = Some(operator)]
    /\ UNCHANGED <<round_trip, payout>>
    /\ UNCHANGED <<slashed_operators, overflow_checks, fetched, operator_nominators, frames,
                   nominator_slashed_balances, panicked>>

\* calculate_nominators_slashed_amount up to the head of its loop (lines 285-299)
CalculateStart(o, fund_balances) ==
    /\ Running
    /\ \A p \in Ops : operators_info[p] # None
    /\ frames[o].pc = "idle"
    /\ \E fund_balance \in fund_balances :
         LET f == StartFrame(operators_info[o][1], operator_nominators[o][1], fund_balance)
         IN IF f.total_stake = Panic
            THEN /\ panicked' = Some(o)
                 /\ UNCHANGED frames
            ELSE /\ frames' = [frames EXCEPT ![o] = f]
                 /\ UNCHANGED panicked
    /\ UNCHANGED <<round_trip, payout>>
    /\ UNCHANGED <<slashed_operators, overflow_checks, fetched, operator_nominators,
                   operators_info, nominator_slashed_balances>>

\* the epochs whose share price the next iteration of the loop looks up
AskedEpochs(f) ==
    LET nominator_storage == f.operator_nominators[FirstKey(f.operator_nominators)]
    IN (IF nominator_storage.deposit.pending = None THEN {}
        ELSE {nominator_storage.deposit.pending[1].effective_domain_epoch})
       \cup (IF nominator_storage.withdrawal = None
                 \/ nominator_storage.withdrawal[1].withdrawal_in_shares = None
              THEN {}
              ELSE {nominator_storage.withdrawal[1].withdrawal_in_shares[1].domain_epoch})

\* one iteration of the loop (lines 300-364); price_tables are the answers
\* get_operator_epoch_share_price can give for the epochs it is asked (an epoch
\* that is not asked has no answer)
SettleNominator(o, price_tables) ==
    /\ Running
    /\ frames[o].pc = "loop"
    /\ \E prices \in {t \in price_tables :
                        \A e \in DomainEpochs \ AskedEpochs(frames[o]) : t[e] = None} :
         LET r == LoopBody(frames[o], prices, overflow_checks)
         IN IF r.panic
            THEN /\ panicked' = Some(o)
                 /\ UNCHANGED frames
            ELSE /\ frames' = [frames EXCEPT ![o] = r.frame]
                 /\ UNCHANGED panicked
    /\ UNCHANGED <<round_trip, payout>>
    /\ UNCHANGED <<slashed_operators, overflow_checks, fetched, operator_nominators,
                   operators_info, nominator_slashed_balances>>

\* the redemption pass and the return (lines 368-384)
RedeemStorageFund(o) ==
    /\ Running
    /\ frames[o].pc = "redeem"
    /\ LET f == frames[o]
           r == RedeemPass(f.nominators_slashed_balances,
                           f.nominator_storage_fund_deposited_balances,
                           f.operator_storage_fund_balance, f.total_storage_fee_deposit,
                           overflow_checks)
       IN IF r.panic
          THEN /\ panicked' = Some(o)
               /\ UNCHANGED frames
          ELSE /\ frames' = [frames EXCEPT ![o] =
                               [f EXCEPT !.pc = "done",
                                         !.nominators_slashed_balances = r.balances]]
               /\ UNCHANGED panicked
    /\ UNCHANGED <<round_trip, payout>>
    /\ UNCHANGED <<slashed_operators, overflow_checks, fetched, operator_nominators,
                   operators_info, nominator_slashed_balances>>

\* join_all(futs).await returns (line 88)
JoinSettlements ==
    /\ Running
    /\ nominator_slashed_balances = None
    /\ \A o \in Ops : frames[o].pc = "done"
    /\ nominator_slashed_balances' =
         Some([i \in 1 .. Len(slashed_operators) |->
                 <<slashed_operators[i],
                   frames[slashed_operators[i]].nominators_slashed_balances>>])
    /\ UNCHANGED <<round_trip, payout>>
    /\ UNCHANGED <<slashed_operators, overflow_checks, fetched, operator_nominators,
                   operators_info, frames, panicked>>

\* lines 89-108: the fold, get_treasury_balance and the assertion
GetTreasuryBalance(treasury_balances) ==
    /\ Running
    /\ nominator_slashed_balances # None
    /\ treasury_balance = None
    /\ LET total == FoldOperators(0, nominator_slashed_balances[1])
       IN IF total = Panic
          THEN /\ panicked' = Some(Main)
               /\ UNCHANGED <<total_balance_slashed, treasury_balance>>
          ELSE \E balance \in treasury_balances :
                 /\ total_balance_slashed' = Some(total)
                 /\ treasury_balance' = Some(balance)
                 /\ panicked' = IF TreasurySufficient(balance, total) THEN panicked
                                ELSE Some(Main)
    /\ UNCHANGED <<slashed_operators, overflow_checks, fetched, operator_nominators,
                   operators_info, frames, nominator_slashed_balances, round_trip, nonce, futs>>

\* lines 111-119: api.get_nonce() and the futures built from it
GetNonce(signer_nonces) ==
    /\ Running
    /\ treasury_balance # None
    /\ nonce = None
    /\ \E n \in signer_nonces :
         LET r == BuildTransfers(n, nominator_slashed_balances[1], overflow_checks)
         IN /\ nonce' = Some(n)
            /\ IF r.panic
               THEN /\ panicked' = Some(Main)
                    /\ UNCHANGED futs
               ELSE /\ futs' = r.futs
                    /\ UNCHANGED panicked
    /\ UNCHANGED <<slashed_operators, overflow_checks, fetched, operator_nominators,
                   operators_info, frames, nominator_slashed_balances, round_trip,
                   total_balance_slashed, treasury_balance>>

\* transfer_balance_from_treasury, polled by join_all(futs) (line 120), up to the
\* submission of its batch extrinsic (lines 511-527)
TransferBalanceFromTreasury(i) ==
    /\ Running
    /\ i \in DOMAIN futs
    /\ futs[i].pc = "created"
    /\ futs' = [futs EXCEPT ![i].pc = "submitted"]
    /\ UNCHANGED <<slashed_operators, overflow_checks, fetched, operator_nominators,
                   operators_info, frames, nominator_slashed_balances, panicked, round_trip,
                   total_balance_slashed, treasury_balance, nonce>>

\* the result of submit_and_watch_extrinsic_until, logged either way (lines 528-541)
ExtrinsicResult(i) ==
    /\ Running
    /\ i \in DOMAIN futs
    /\ futs[i].pc = "submitted"
    /\ \E result \in {"included", "failed"} : futs' = [futs EXCEPT ![i].pc = result]
    /\ UNCHANGED <<slashed_operators, overflow_checks, fetched, operator_nominators,
                   operators_info, frames, nominator_slashed_balances, panicked, round_trip,
                   total_balance_slashed, treasury_balance, nonce>>

\* ------------------------------------------------------------------- inputs
Amounts == 0 .. MaxAmount

KnownDepositValues == [shares : Amounts, storage_fee_deposit : {0, 1}]

PendingDepositValues ==
    [effective_domain_epoch : {<<DomainId, 1>>}, amount : {MaxAmount}, storage_fee_deposit : {1}]

\* deposits with nothing pending, and all deposits
SettledDepositValues == [known : KnownDepositValues, pending : {None}]

DepositValues ==
    [known : KnownDepositValues, pending : {None} \cup {Some(p) : p \in PendingDepositValues}]

WithdrawalInBalanceValues ==
    [domain_id : {DomainId}, unlock_at_confirmed_domain_block_number : {1},
     amount_to_unlock : {1, 2}, storage_fee_refund : {1}]

\* queues of distinct entries, at most two
WithdrawalQueues ==
    {<< >>} \cup {<<w>> : w \in WithdrawalInBalanceValues}
    \cup {<<q[1], q[2]>> : q \in {p \in WithdrawalInBalanceValues \X WithdrawalInBalanceValues :
                                     p[1].amount_to_unlock = p[2].amount_to_unlock + 1}}

WithdrawalInSharesValues ==
    [domain_epoch : {<<DomainId, MaxEpoch>>}, unlock_at_confirmed_domain_block_number : {2},
     shares : {1, MaxAmount}, storage_fee_refund : {1}]

WithdrawalValues ==
    [total_withdrawal_amount : {0, 1},
     withdrawals : WithdrawalQueues,
     withdrawal_in_shares : {None} \cup {Some(w) : w \in WithdrawalInSharesValues}]

OperatorValues ==
    [current_total_stake : {MaxAmount + 1, BalanceMax}, current_epoch_rewards : {0, 1},
     current_total_shares : Amounts, total_storage_fee_deposit : {0, MaxAmount}]

\* the balances of the storage fund account
FundBalances == {0, 1, MaxAmount}

\* what a lookup of OperatorEpochSharePrice can answer, per epoch
PriceTables == [DomainEpochs -> {None, Some(ACCURACY \div 2), Some(ACCURACY)}]

\* the free balances the treasury account can hold
TreasuryBalances == {0, 2 * MaxAmount, BalanceMax}

\* the nonces the signer's account can be at
SignerNonces == {0, 1, NonceMax - 1, NonceMax}

RECURSIVE SortedSeq(_)
SortedSeq(S) ==
    IF S = {} THEN << >>
    ELSE LET k == CHOOSE x \in S : \A y \in S : x <= y IN <<k>> \o SortedSeq(S \ {k})

\* the entries of a storage map, as get_nominator_storage lists them
StreamOf(m) == [i \in 1 .. Cardinality(DOMAIN m) |->
                  <<SortedSeq(DOMAIN m)[i], m[SortedSeq(DOMAIN m)[i]]>>]

StreamsOver(ids, values) == {StreamOf(m) : m \in UNION {[S -> values] : S \in ids}}

\* the Deposits and Withdrawals storage of one operator at the snapshot: any set
\* of nominators with settled deposits and no withdrawal; one nominator with any
\* deposit and any or no withdrawal; a withdrawal of a nominator without deposit
StorageSnapshots ==
    (StreamsOver(SUBSET AccountIds, SettledDepositValues) \X {<< >>})
    \cup (StreamsOver({{1}}, DepositValues)
            \X ({<< >>} \cup StreamsOver({{1}}, WithdrawalValues)))
    \cup (StreamsOver({{}} \cup {{1}}, SettledDepositValues)
            \X StreamsOver({{MaxNominators}}, {CHOOSE w \in WithdrawalValues : TRUE}))

\* ------------------------------------------------------------ specification
InitWith(operators) ==
    /\ slashed_operators = operators
    /\ overflow_checks \in BOOLEAN
    /\ fetched = [o \in Ops |-> None]
    /\ operator_nominators = [o \in Ops |-> None]
    /\ operators_info = [o \in Ops |-> None]
    /\ frames = [o \in Ops |-> IdleFrame]
    /\ nominator_slashed_balances = None
    /\ panicked = None
    /\ round_trip = None
    /\ total_balance_slashed = None
    /\ treasury_balance = None
    /\ nonce = None
    /\ futs = << >>

Init == InitWith(<<1>>)

Next ==
    \/ \E o \in Ops : GetNominatorDepositsAndWithdrawal(o, StorageSnapshots)
    \/ \E o \in Ops : GetOperatorInfo(o, OperatorValues)
    \/ \E o \in Ops : CalculateStart(o, FundBalances)
    \/ \E o \in Ops : SettleNominator(o, PriceTables)
    \/ \E o \in Ops : RedeemStorageFund(o)
    \/ JoinSettlements

Spec == Init /\ [][Next]_vars

\* the storage of one operator with streams in any order, for record assembly
AssemblyDepositValues == [known : [shares : 1 .. MaxAmount, storage_fee_deposit : {0}],
                          pending : {None}]

AssemblyWithdrawalValues ==
    [total_withdrawal_amount : 1 .. MaxAmount, withdrawals : {<< >>},
     withdrawal_in_shares : {None}]

AnyOrderStreams(values) ==
    {s \in UNION {[1 .. n -> AccountIds \X values] : n \in 0 .. MaxNominators} :
        \A i, j \in DOMAIN s : i # j => s[i][1] # s[j][1]}

AssemblySnapshots ==
    AnyOrderStreams(AssemblyDepositValues) \X AnyOrderStreams(AssemblyWithdrawalValues)

NextAssemble ==
    \E o \in Ops : GetNominatorDepositsAndWithdrawal(o, AssemblySnapshots)

\* record assembly alone, over every order of the two streams
SpecAssemble == Init /\ [][NextAssemble]_vars

\* a run over two operators
RunSnapshots ==
    (StreamsOver({{1}}, AssemblyDepositValues) \X {<< >>})
    \cup ({<< >>} \X StreamsOver({{1}}, {CHOOSE w \in AssemblyWithdrawalValues : TRUE}))

RunOperatorValues ==
    [current_total_stake : {MaxAmount + 1, BalanceMax}, current_epoch_rewards : {0, 1},
     current_total_shares : 1 .. MaxAmount, total_storage_fee_deposit : {0}]

InitRun == InitWith(<<1, 2>>)

NextRun ==
    \/ \E o \in Ops : GetNominatorDepositsAndWithdrawal(o, RunSnapshots)
    \/ \E o \in Ops : GetOperatorInfo(o, RunOperatorValues)
    \/ \E o \in Ops : CalculateStart(o, {0})
    \/ \E o \in Ops : SettleNominator(o, PriceTables)
    \/ \E o \in Ops : RedeemStorageFund(o)
    \/ JoinSettlements

SpecRun == InitRun /\ [][NextRun]_vars

\* a run over two operators up to the treasury transfers
NextPay ==
    \/ \E o \in Ops : GetNominatorDepositsAndWithdrawal(o, RunSnapshots)
    \/ \E o \in Ops : GetOperatorInfo(o, RunOperatorValues)
    \/ \E o \in Ops : CalculateStart(o, {0})
    \/ \E o \in Ops : SettleNominator(o, PriceTables)
    \/ \E o \in Ops : RedeemStorageFund(o)
    \/ JoinSettlements
    \/ GetTreasuryBalance(TreasuryBalances)
    \/ GetNonce(SignerNonces)
    \/ \E i \in DOMAIN futs : TransferBalanceFromTreasury(i)
    \/ \E i \in DOMAIN futs : ExtrinsicResult(i)

SpecPay == InitRun /\ [][NextPay]_vars

\* SharePrice::new(shares, total) converting a stake to shares and back
ConvertRoundTrip(balances) ==
    /\ round_trip = None
    /\ \E shares \in balances, total \in balances, stake \in balances \ {0} :
         LET price == SharePriceNew(shares, total)
             to_shares == StakeToShares(price, stake)
         IN round_trip' = Some([shares |-> shares, total |-> total, stake |-> stake,
                                price |-> price, to_shares |-> to_shares,
                                to_stake |-> SharesToStake(price, to_shares)])
    /\ UNCHANGED <<slashed_operators, overflow_checks, fetched, operator_nominators,
                   operators_info, frames, nominator_slashed_balances, panicked, payout>>

NextPrice == ConvertRoundTrip(Balance)

\* the two conversions of SharePrice alone, over every price and stake
SpecPrice == Init /\ [][NextPrice]_vars

\* ------------------------------------------------------------------- claims
RECURSIVE SumOver(_, _)
SumOver(f, S) ==
    IF S = {} THEN 0
    ELSE LET k == CHOOSE x \in S : TRUE IN f[k] + SumOver(f, S \ {k})

\* the operators whose loop has ended
LoopEnded == {o \in Ops : frames[o].pc \in {"redeem", "done"}}

\* the (operator, nominator) pairs whose loop iteration has completed
Settled == {on \in Ops \X AccountIds : on[2] \in DOMAIN frames[on[1]].settled}

InputOf(on) == operator_nominators[on[1]][1][on[2]]

LocalsOf(on) == frames[on[1]].settled[on[2]]

\* the pre-settlement total_stake of operator o (line 285)
PreTotalStake(o) ==
    operators_info[o][1].current_total_stake + operators_info[o][1].current_epoch_rewards

\* the share price of line 292, from the operator record alone
OperatorPrice(o) == SharePriceNew(operators_info[o][1].current_total_shares, PreTotalStake(o))

\* C1: when the nominators' shares sum to at most current_total_shares, the sum of
\* the nominators' stake claims computed by the loop is at most the
\* pre-settlement total_stake = current_total_stake + current_epoch_rewards.
C1_StakeConserved ==
    \A o \in LoopEnded :
        LET settled == frames[o].settled
        IN SumOver([n \in DOMAIN settled |-> settled[n].nominator_shares], DOMAIN settled)
              <= operators_info[o][1].current_total_shares
           => SumOver([n \in DOMAIN settled |-> settled[n].nominator_staked_amount],
                      DOMAIN settled) <= PreTotalStake(o)

\* a withdrawal whose share-denominated component found no price for its epoch
UnresolvedWithdrawal(on) ==
    /\ InputOf(on).withdrawal # None
    /\ InputOf(on).withdrawal[1].withdrawal_in_shares # None
    /\ LocalsOf(on).withdrawal_lookup = Some(None)

\* a deposit whose pending component found no price for its effective epoch
UnresolvedDeposit(on) ==
    /\ InputOf(on).deposit.pending # None
    /\ LocalsOf(on).deposit_lookup = Some(None)

\* C2: for a nominator whose share-denominated withdrawal is still unresolved,
\* pending_shares is that component's shares, and the stake claim is
\* shares_to_stake(deposit.known.shares + withdrawal_in_shares.shares).
C2_PendingSharesCounted ==
    \A on \in Settled :
        UnresolvedWithdrawal(on) =>
            LET shares == InputOf(on).withdrawal[1].withdrawal_in_shares[1].shares
                l == LocalsOf(on)
            IN /\ l.shares_withdrew_in_current_epoch = shares
               /\ l.nominator_shares = l.deposit.known.shares + shares
               /\ l.nominator_staked_amount =
                     SharesToStake(OperatorPrice(on[1]), l.deposit.known.shares + shares)

RECURSIVE DeductUnresolved(_, _, _)
DeductUnresolved(total, o, S) ==
    IF S = {} THEN total
    ELSE LET n == CHOOSE x \in S : \A y \in S : x <= y
             rest == DeductUnresolved(total, o, S \ {n})
         IN IF UnresolvedDeposit(<<o, n>>)
            THEN SaturatingSub(rest, InputOf(<<o, n>>).deposit.pending[1].storage_fee_deposit)
            ELSE rest

\* C3: the redemption pass prices with operator.total_storage_fee_deposit minus
\* (saturating) the storage_fee_deposit of every pending deposit left unresolved.
C3_UnresolvedFeeDeducted ==
    \A o \in LoopEnded :
        frames[o].total_storage_fee_deposit =
            DeductUnresolved(operators_info[o][1].total_storage_fee_deposit, o,
                             DOMAIN frames[o].settled)

\* C4: resolution leaves an entry whose epoch has no share price as it was.
C4_UnpriceableUntouched ==
    \A on \in Settled :
        /\ UnresolvedDeposit(on) => LocalsOf(on).deposit = InputOf(on).deposit
        /\ UnresolvedWithdrawal(on) => LocalsOf(on).withdrawal = InputOf(on).withdrawal

\* the redemption the pass adds for a settled nominator (line 375)
RedeemedOf(on) ==
    Redeem(frames[on[1]].operator_storage_fund_balance,
           frames[on[1]].total_storage_fee_deposit,
           LocalsOf(on).deposit.known.storage_fee_deposit)

\* C6: no balance in a mapping is the wrapped result of an overflowing
\* addition: nominator_stake_claim + ready + refunded fits Balance for every
\* recorded provisional balance, and so does provisional + redemption for every
\* final one (a settlement whose sum does not fit aborts and records nothing).
C6_AdditionsChecked ==
    \A on \in Settled :
        /\ LocalsOf(on).nominator_staked_amount + LocalsOf(on).amount_ready_to_withdraw
              + LocalsOf(on).storage_fund_withdrew <= BalanceMax
        /\ frames[on[1]].pc = "done" => LocalsOf(on).total_slashed + RedeemedOf(on) <= BalanceMax

\* a withdrawal whose share-denominated component was priced
ResolvedWithdrawal(on) ==
    /\ InputOf(on).withdrawal # None
    /\ InputOf(on).withdrawal[1].withdrawal_in_shares # None
    /\ LocalsOf(on).withdrawal_lookup # Some(None)

\* C8: resolving a withdrawal whose epoch has a share price adds
\* shares_to_stake(shares) under that price to total_withdrawal_amount, appends
\* one WithdrawalInBalance with that amount and the unlock block and
\* storage_fee_refund of the share-denominated entry behind the unchanged queue,
\* and clears the share-denominated component: resolving again changes nothing.
C8_WithdrawalResolved ==
    \A on \in Settled :
        ResolvedWithdrawal(on) =>
            LET before == InputOf(on).withdrawal[1]
                after == LocalsOf(on).withdrawal[1]
                pw == before.withdrawal_in_shares[1]
                amount == SharesToStake(LocalsOf(on).withdrawal_lookup[1][1], pw.shares)
            IN /\ after.total_withdrawal_amount = before.total_withdrawal_amount + amount
               /\ Len(after.withdrawals) = Len(before.withdrawals) + 1
               /\ SubSeq(after.withdrawals, 1, Len(before.withdrawals)) = before.withdrawals
               /\ after.withdrawals[Len(after.withdrawals)].amount_to_unlock = amount
               /\ after.withdrawals[Len(after.withdrawals)].unlock_at_confirmed_domain_block_number
                     = pw.unlock_at_confirmed_domain_block_number
               /\ after.withdrawals[Len(after.withdrawals)].storage_fee_refund
                     = pw.storage_fee_refund
               /\ after.withdrawal_in_shares = None
               /\ \A prices \in PriceTables :
                     DoConvertPreviousEpochWithdrawal(after, prices) =
                        [panic |-> FALSE, withdrawal |-> after]

\* a withdrawal with a non-empty queue was resolved under a price that is not
\* the identity
C8_Witness ==
    \E on \in Settled :
        /\ ResolvedWithdrawal(on)
        /\ Len(InputOf(on).withdrawal[1].withdrawals) = 2
        /\ LocalsOf(on).withdrawal_lookup[1][1] # ACCURACY
        /\ LocalsOf(on).withdrawal[1].total_withdrawal_amount
              > InputOf(on).withdrawal[1].total_withdrawal_amount + 1

RECURSIVE RefundSum(_)
RefundSum(q) == IF q = << >> THEN 0 ELSE Head(q).storage_fee_refund + RefundSum(Tail(q))

\* C9: every final settled balance is nominator_stake_claim
\* + total_withdrawal_amount + the storage_fee_refund of every entry of the
\* resolved queue + redeem(deposit.known.storage_fee_deposit), the withdrawal
\* terms being 0 without a withdrawal.
C9_SettledBalance ==
    \A on \in Settled :
        frames[on[1]].pc = "done" =>
            frames[on[1]].nominators_slashed_balances[on[2]] =
                LocalsOf(on).nominator_staked_amount
                + (IF LocalsOf(on).withdrawal = None THEN 0
                   ELSE LocalsOf(on).withdrawal[1].total_withdrawal_amount
                        + RefundSum(LocalsOf(on).withdrawal[1].withdrawals))
                + RedeemedOf(on)

\* C10: every stake claim is shares_to_stake(nominator_shares) under the price
\* of the operator's current_total_shares and current_total_stake +
\* current_epoch_rewards, whatever was settled before it.
C10_PriceFixed ==
    \A on \in Settled :
        LocalsOf(on).nominator_staked_amount =
            SharesToStake(OperatorPrice(on[1]), LocalsOf(on).nominator_shares)

\* a second nominator claimed stake after the first had taken the running
\* total_stake to zero, under a price that is not the identity
C10_Witness ==
    \E o \in LoopEnded :
        /\ Cardinality(DOMAIN frames[o].settled) = 2
        /\ OperatorPrice(o) # ACCURACY
        /\ frames[o].settled[1].nominator_staked_amount >= PreTotalStake(o)
        /\ frames[o].settled[2].nominator_staked_amount > 0
        /\ frames[o].total_stake = 0

\* C5 as stated: when the settlement of one operator aborts, the settlements of
\* the other operators still complete and their mappings are produced: no run
\* ends with one operator aborted and another operator's mapping missing.
C5_ErrorIsolation ==
    \A o \in Ops :
        panicked = Some(o) =>
            \/ ENABLED NextRun
            \/ \A p \in Ops \ {o} : frames[p].pc = "done"

\* C5 amended: an abort in one operator's future ends the run. The step that
\* aborts, and every step after it, leaves the frames of all operators as they
\* were and the joined result absent: no settlement advances and no mapping is
\* output, and nothing the other settlements computed is altered.
C5_AbortEndsRun ==
    [][panicked' # None => /\ frames' = frames
                           /\ operator_nominators' = operator_nominators
                           /\ nominator_slashed_balances' = None]_vars

\* one operator aborted while the other was inside its settlement
C5_Witness ==
    \E o \in Ops, p \in Ops :
        /\ o # p
        /\ panicked = Some(o)
        /\ frames[o].pc = "loop"
        /\ frames[p].pc = "redeem"

\* the nominators a stream lists
StreamIds(stream) == {stream[i][1] : i \in DOMAIN stream}

EntryOf(stream, n) == stream[CHOOSE i \in DOMAIN stream : stream[i][1] = n][2]

\* C7: if some fetched withdrawal's nominator has no deposit entry the run aborts
\* and no mapping is produced; otherwise the mapping's keys are the nominators of
\* the deposit stream, each with its own deposit and with its fetched withdrawal,
\* or none when it has no withdrawal.
C7_RecordAssembly ==
    \A o \in Ops :
        fetched[o] # None =>
            LET deposits == fetched[o][1].deposits
                withdrawals == fetched[o][1].withdrawals
            IN IF ~(StreamIds(withdrawals) \subseteq StreamIds(deposits))
               THEN panicked = Some(o) /\ operator_nominators[o] = None
               ELSE /\ panicked # Some(o)
                    /\ operator_nominators[o] # None
                    /\ DOMAIN operator_nominators[o][1] = StreamIds(deposits)
                    /\ \A n \in StreamIds(deposits) :
                          /\ operator_nominators[o][1][n].deposit = EntryOf(deposits, n)
                          /\ operator_nominators[o][1][n].withdrawal =
                                IF n \in StreamIds(withdrawals)
                                THEN Some(EntryOf(withdrawals, n))
                                ELSE None

\* two nominators listed out of key order, one of them with a withdrawal
C7_Witness ==
    \E o \in Ops :
        /\ fetched[o] # None
        /\ operator_nominators[o] # None
        /\ Len(fetched[o][1].deposits) = 2
        /\ fetched[o][1].deposits[1][1] > fetched[o][1].deposits[2][1]
        /\ Len(fetched[o][1].withdrawals) = 1
        /\ \E n \in DOMAIN operator_nominators[o][1] :
              operator_nominators[o][1][n].withdrawal = None

\* C11: for every share price SharePrice::new(shares, total) and every stake > 0,
\* converting the stake to shares and the shares back to stake returns an amount
\* that is at most the stake; under the identity price (shares or total zero)
\* both conversions return their argument.
C11_RoundTripNeverOverstates ==
    round_trip # None =>
        LET r == round_trip[1]
        IN /\ r.to_stake # Panic
           /\ r.to_stake <= r.stake
           /\ (r.shares = 0 \/ r.total = 0) =>
                  r.to_shares = r.stake /\ r.to_stake = r.to_shares

\* C12: for an operator whose redemption pass has run, when the remaining
\* deposit.known.storage_fee_deposit recorded in the loop sum over the nominators
\* to at most the total_storage_fee_deposit of the redeem price, the redeemed
\* amounts sum to at most the operator's storage fund balance.
C12_StorageFundConserved ==
    \A o \in Ops :
        frames[o].pc = "done" =>
            LET settled == frames[o].settled
            IN SumOver([n \in DOMAIN settled |-> settled[n].deposit.known.storage_fee_deposit],
                       DOMAIN settled) <= frames[o].total_storage_fee_deposit
               => SumOver([n \in DOMAIN settled |-> RedeemedOf(<<o, n>>)], DOMAIN settled)
                     <= frames[o].operator_storage_fund_balance

\* the transfer futures whose batch was submitted
Submitted == {i \in DOMAIN futs : futs[i].pc # "created"}

\* the sum of every settled balance over all nominators of all operators
SettledTotal ==
    SumOver([o \in Ops |-> SumOver(frames[o].nominators_slashed_balances,
                                    DOMAIN frames[o].nominators_slashed_balances)], Ops)

====
